---- MODULE Spec2Model ----
(***************************************************************************)
(* Model of routing/pathfind.go: fee arithmetic, route construction         *)
(* (newRoute), the backward Dijkstra search (findPath), the k-shortest      *)
(* paths walker (findKPaths), peg expansion (prepareHopPegs) and the        *)
(* segment stitcher (findPaths).                                            *)
(*                                                                         *)
(* Go slices are 0-based, TLA+ sequences 1-based: Go index i is TLA+ index  *)
(* i+1 throughout.  A ChannelEdgePolicy is a record; its ChannelFlags are   *)
(* split into the two bits the code reads, Disabled and Direction.  A       *)
(* pointer that may be nil, and a lookup that may fail, is a sequence of at *)
(* most one element: <<>> for nil, <<x>> for x.                             *)
(***************************************************************************)
EXTENDS Integers, Sequences, FiniteSets, TLC

VARIABLES
    pc,              \* position of the running call
    graph,           \* the channel graph (read-only during a call)
    source,          \* source vertex of the call
    target,          \* target vertex of the call
    amt,             \* payment amount (amt / amtToSend)
    feeLimit,        \* fee limit of the call
    numPaths,        \* findPaths: number of paths asked for
    bandwidthHints,  \* findPaths: channel id -> bandwidth, for hinted channels
    additionalPegs,  \* findPaths: the caller's pegs
    pegs,            \* findPaths: pegs after prepareHopPegs
    segPaths,        \* findPaths: per-segment paths
    segParams,       \* findPaths: per-segment parameters
    startingPath,    \* findPaths: the stitched base path
    startingPathFee, \* findPaths: fee of the stitched base path
    ignoredEdges,    \* findPaths: edge locators of the segments found so far
    candidatePaths,  \* findPaths: heap of stitched candidates
    shortestPaths,   \* findPaths: the paths returned
    segIdx,          \* findPaths: loop counter of the running loop
    tooLong,         \* findPaths: stitched candidates filtered out for length
    err,             \* error returned by the call ("nil" for none)
    pathEdges,       \* newRoute: the edge list
    currentHeight,   \* newRoute: current block height
    finalCLTVDelta,  \* newRoute: final CLTV delta
    route,           \* newRoute: the route returned (<<>> for none)
    gOriginVertex,   \* findPath: graphParams.originVertex (<<>> for nil)
    outgoingChannelID, \* findPath: restrictParams.outgoingChannelID
    seed,            \* findPath: the path the search reconstructed, [path, err]
    pathFound,       \* findPath: what findPath returns, [path, err]
    kPaths,          \* findKPaths: what findKPaths returns, [paths, err]
    kLoop            \* findKPaths: the locals of its outer loop, [ks, k]

vars == <<pc, graph, source, target, amt, feeLimit, numPaths, bandwidthHints,
          additionalPegs, pegs, segPaths, segParams, startingPath,
          startingPathFee, ignoredEdges, candidatePaths, shortestPaths,
          segIdx, tooLong, err, pathEdges, currentHeight, finalCLTVDelta, route,
          gOriginVertex, outgoingChannelID, seed, pathFound, kPaths, kLoop>>

findPathsVars == <<graph, numPaths, bandwidthHints, additionalPegs, pegs,
                   segPaths, segParams, startingPath, startingPathFee,
                   ignoredEdges, candidatePaths, shortestPaths, segIdx, tooLong,
                   target>>

newRouteVars == <<pathEdges, currentHeight, finalCLTVDelta, route>>

searchVars == <<gOriginVertex, outgoingChannelID, seed, pathFound, kPaths,
                kLoop>>

(***************************************************************************)
(* Program constants.  The model's integers are TLC's 32-bit ones, so the   *)
(* two "larger than anything" values are scaled to the largest of those.    *)
(***************************************************************************)
HopLimit == 20

RiskFactorBillionths == 15

infinity == 2147483647

noFeeLimit == 2147483646

(***************************************************************************)
(* Fee arithmetic.                                                          *)
(***************************************************************************)
computeFee(a, edge) ==
    edge.FeeBaseMSat + (a * edge.FeeProportionalMillionths) \div 1000000

RECURSIVE computePathFeeLoop(_, _, _, _)
computePathFeeLoop(a, edges, i, nextIncomingAmount) ==
    IF i < 1 THEN nextIncomingAmount
    ELSE LET amtToForward == IF i # Len(edges) THEN nextIncomingAmount ELSE a
             fee == IF i # Len(edges)
                    THEN computeFee(amtToForward, edges[i + 1]) ELSE 0
         IN computePathFeeLoop(a, edges, i - 1, amtToForward + fee)

computePathFee(a, edges) ==
    computePathFeeLoop(a, edges, Len(edges), 0) - a

isSamePath(path1, path2) ==
    IF Len(path1) # Len(path2) THEN FALSE
    ELSE \A i \in 1..Len(path1) : path1[i].ChannelID = path2[i].ChannelID

edgeWeight(lockedAmt, fee, timeLockDelta) ==
    fee + (lockedAmt * timeLockDelta * RiskFactorBillionths) \div 1000000000

(***************************************************************************)
(* Route construction.                                                      *)
(***************************************************************************)
NewRouteFromHops(amtToSend, timeLock, sourceVertex, hops) ==
    IF Len(hops) = 0
    THEN [route |-> <<>>, err |-> "ErrNoRouteHopsProvided"]
    ELSE [route |-> <<[SourcePubKey |-> sourceVertex,
                     Hops          |-> hops,
                     TotalTimeLock |-> timeLock,
                     TotalAmount   |-> amtToSend,
                     TotalFees     |-> amtToSend - hops[Len(hops)].AmtToForward,
                     nodeIndex     |-> {hops[k].PubKeyBytes : k \in 1..Len(hops)},
                     chanIndex     |-> {hops[k].ChannelID : k \in 1..Len(hops)}]>>,
          err |-> "nil"]

\* The fee is taken from the wrong edge: the hop's own incoming edge.
newRouteIterFeeOwnEdge(st, edges, i, amtToSend, height, finalDelta) ==
    LET last == i = Len(edges)
        amtToForward == IF last THEN amtToSend ELSE st.nextIncomingAmount
        fee == IF last THEN 0 ELSE computeFee(amtToForward, edges[i])
        delta == IF last THEN finalDelta ELSE edges[i + 1].TimeLockDelta
        totalTimeLock == st.totalTimeLock + delta
        outgoingTimeLock == IF last THEN height + finalDelta
                            ELSE totalTimeLock - delta
    IN [hops |-> <<[PubKeyBytes      |-> edges[i].Node,
                    ChannelID        |-> edges[i].ChannelID,
                    AmtToForward     |-> amtToForward,
                    OutgoingTimeLock |-> outgoingTimeLock]>> \o st.hops,
        totalTimeLock |-> totalTimeLock,
        nextIncomingAmount |-> amtToForward + fee]

\* The outgoing time lock keeps the delta that was just added.
newRouteIterKeepDelta(st, edges, i, amtToSend, height, finalDelta) ==
    LET last == i = Len(edges)
        amtToForward == IF last THEN amtToSend ELSE st.nextIncomingAmount
        fee == IF last THEN 0 ELSE computeFee(amtToForward, edges[i + 1])
        delta == IF last THEN finalDelta ELSE edges[i + 1].TimeLockDelta
        totalTimeLock == st.totalTimeLock + delta
        outgoingTimeLock == IF last THEN height + finalDelta
                            ELSE totalTimeLock
    IN [hops |-> <<[PubKeyBytes      |-> edges[i].Node,
                    ChannelID        |-> edges[i].ChannelID,
                    AmtToForward     |-> amtToForward,
                    OutgoingTimeLock |-> outgoingTimeLock]>> \o st.hops,
        totalTimeLock |-> totalTimeLock,
        nextIncomingAmount |-> amtToForward + fee]

\* The time lock delta is taken from the hop's own incoming edge.
newRouteIterOwnDelta(st, edges, i, amtToSend, height, finalDelta) ==
    LET last == i = Len(edges)
        amtToForward == IF last THEN amtToSend ELSE st.nextIncomingAmount
        fee == IF last THEN 0 ELSE computeFee(amtToForward, edges[i + 1])
        delta == IF last THEN finalDelta ELSE edges[i].TimeLockDelta
        totalTimeLock == st.totalTimeLock + delta
        outgoingTimeLock == IF last THEN height + finalDelta
                            ELSE totalTimeLock - delta
    IN [hops |-> <<[PubKeyBytes      |-> edges[i].Node,
                    ChannelID        |-> edges[i].ChannelID,
                    AmtToForward     |-> amtToForward,
                    OutgoingTimeLock |-> outgoingTimeLock]>> \o st.hops,
        totalTimeLock |-> totalTimeLock,
        nextIncomingAmount |-> amtToForward + fee]

\* One iteration of newRoute's loop, for the edge at (1-based) index i.
newRouteIter(st, edges, i, amtToSend, height, finalDelta) ==
    LET last == i = Len(edges)
        amtToForward == IF last THEN amtToSend ELSE st.nextIncomingAmount
        fee == IF last THEN 0 ELSE computeFee(amtToForward, edges[i + 1])
        delta == IF last THEN finalDelta ELSE edges[i + 1].TimeLockDelta
        totalTimeLock == st.totalTimeLock + delta
        outgoingTimeLock == IF last THEN height + finalDelta
                            ELSE totalTimeLock - delta
    IN [hops |-> <<[PubKeyBytes      |-> edges[i].Node,
                    ChannelID        |-> edges[i].ChannelID,
                    AmtToForward     |-> amtToForward,
                    OutgoingTimeLock |-> outgoingTimeLock]>> \o st.hops,
        totalTimeLock |-> totalTimeLock,
        nextIncomingAmount |-> amtToForward + fee]

RECURSIVE newRouteLoop(_, _, _, _, _, _)
newRouteLoop(st, edges, i, amtToSend, height, finalDelta) ==
    IF i < 1 THEN st
    ELSE newRouteLoop(newRouteIter(st, edges, i, amtToSend, height, finalDelta),
                      edges, i - 1, amtToSend, height, finalDelta)

\* The fee limit is exclusive: fees equal to the limit are refused too.
newRouteFeeLimitExclusive(amtToSend, limit, sourceVertex, edges, height, finalDelta) ==
    LET st == newRouteLoop([hops |-> <<>>, totalTimeLock |-> height,
                            nextIncomingAmount |-> 0],
                           edges, Len(edges), amtToSend, height, finalDelta)
        res == NewRouteFromHops(st.nextIncomingAmount, st.totalTimeLock,
                                sourceVertex, st.hops)
    IN IF res.err # "nil" THEN res
       ELSE IF res.route[1].TotalFees >= limit
            THEN [route |-> <<>>, err |-> "ErrFeeLimitExceeded"]
            ELSE res

newRoute(amtToSend, limit, sourceVertex, edges, height, finalDelta) ==
    LET st == newRouteLoop([hops |-> <<>>, totalTimeLock |-> height,
                            nextIncomingAmount |-> 0],
                           edges, Len(edges), amtToSend, height, finalDelta)
        res == NewRouteFromHops(st.nextIncomingAmount, st.totalTimeLock,
                                sourceVertex, st.hops)
    IN IF res.err # "nil" THEN res
       ELSE IF res.route[1].TotalFees > limit
            THEN [route |-> <<>>, err |-> "ErrFeeLimitExceeded"]
            ELSE res

(***************************************************************************)
(* The channel graph.  A graph is [nodes, chans]; chans is the sequence of  *)
(* channels in the order the store iterates them.  A channel is             *)
(* [ChannelID, NodeKey1, NodeKey2, Capacity (satoshi), p1, p2]: p1 is the   *)
(* policy of node 1 (the edge NodeKey1 -> NodeKey2, direction bit 0), p2    *)
(* the policy of node 2 (NodeKey2 -> NodeKey1, direction bit 1).  A         *)
(* policy's Node is the vertex the edge leads to.                           *)
(***************************************************************************)
Policy(id, to, dir, base, rate, delta, minHTLC, disabled) ==
    [ChannelID |-> id, Node |-> to, Direction |-> dir,
     FeeBaseMSat |-> base, FeeProportionalMillionths |-> rate,
     TimeLockDelta |-> delta, MinHTLC |-> minHTLC, Disabled |-> disabled]

\* The "self" edge findKPaths puts in front of a path: only Node is set.
SelfEdge(v) == Policy(0, v, 0, 0, 0, 0, 0, FALSE)

NewMSatFromSatoshis(sat) == sat * 1000

newEdgeLocator(edge) == <<edge.ChannelID, edge.Direction>>

\* graph.FetchChannelEdgesByID: the channel, if it is known.
FetchChannelEdgesByID(G, id) ==
    IF \E k \in 1..Len(G.chans) : G.chans[k].ChannelID = id
    THEN <<G.chans[CHOOSE k \in 1..Len(G.chans) : G.chans[k].ChannelID = id]>>
    ELSE <<>>

\* edgeInfo.OtherNodeKeyBytes / FetchOtherNode: fails when v is no endpoint.
OtherNode(info, v) ==
    IF v = info.NodeKey1 THEN <<info.NodeKey2>>
    ELSE IF v = info.NodeKey2 THEN <<info.NodeKey1>>
    ELSE <<>>

\* The vertex an edge of the graph leaves from.
EdgeTail(G, edge) ==
    OtherNode(FetchChannelEdgesByID(G, edge.ChannelID)[1], edge.Node)[1]

\* node.ForEachChannel hands out, for a channel of the node, the policy of
\* the other endpoint: the edge that leads into the node.
InEdge(info, v) == IF v = info.NodeKey2 THEN info.p1 ELSE info.p2

(***************************************************************************)
(* Heaps: a sequence in insertion order; Pop takes the smallest key, the    *)
(* earliest inserted among equals.                                          *)
(***************************************************************************)
HeapMinIndex(h) ==
    CHOOSE k \in 1..Len(h) :
        /\ \A m \in 1..Len(h) : h[k].dist <= h[m].dist
        /\ \A m \in 1..(k - 1) : h[m].dist > h[k].dist

HeapRemove(h, k) == SubSeq(h, 1, k - 1) \o SubSeq(h, k + 1, Len(h))

(***************************************************************************)
(* findPath.  c is the call: [G, bandwidthHints, additionalEdges,           *)
(* originVertex, r, source, target, amt] with r the restrictParams          *)
(* [ignoredNodes, ignoredEdges, feeLimit, outgoingChannelID,                *)
(* stopAtMaxHopsExceeded].  st is the search state [distance, next,         *)
(* nodeHeap].                                                               *)
(***************************************************************************)
OriginVertex(c) ==
    IF c.originVertex # <<>> THEN c.originVertex[1] ELSE c.source

\* A disabled edge is skipped even when it leaves the origin.
processEdgeDisabledAtOrigin(c, st, fromVertex, edge, bandwidth, toNode) ==
    LET originVertex == OriginVertex(c)
        isSourceChan == fromVertex = originVertex
        toNodeDist == st.distance[toNode]
        amountToSend == toNodeDist.amountToReceive
        fee == IF fromVertex # originVertex
               THEN computeFee(amountToSend, edge) ELSE 0
        timeLockDelta == IF fromVertex # originVertex
                         THEN edge.TimeLockDelta ELSE 0
        amountToReceive == amountToSend + fee
        totalFee == amountToReceive - c.amt
        weight == edgeWeight(amountToReceive, fee, timeLockDelta)
        tempDist == toNodeDist.dist + weight
        entry == [dist |-> tempDist, node |-> fromVertex,
                  amountToReceive |-> amountToReceive, fee |-> fee]
    IN IF edge.Disabled THEN st
       ELSE IF isSourceChan /\ c.r.outgoingChannelID # <<>>
               /\ c.r.outgoingChannelID[1] # edge.ChannelID THEN st
       ELSE IF fromVertex \in c.r.ignoredNodes THEN st
       ELSE IF newEdgeLocator(edge) \in c.r.ignoredEdges THEN st
       ELSE IF bandwidth < amountToSend THEN st
       ELSE IF amountToSend < edge.MinHTLC THEN st
       ELSE IF totalFee > c.r.feeLimit THEN st
       ELSE IF tempDist >= st.distance[fromVertex].dist THEN st
       ELSE IF edge.TimeLockDelta = 0 THEN st
       ELSE [distance |-> [st.distance EXCEPT ![fromVertex] = entry],
             next     |-> [st.next EXCEPT ![fromVertex] = <<edge>>],
             nodeHeap |-> Append(st.nodeHeap, entry)]

processEdge(c, st, fromVertex, edge, bandwidth, toNode) ==
    LET originVertex == OriginVertex(c)
        isSourceChan == fromVertex = originVertex
        toNodeDist == st.distance[toNode]
        amountToSend == toNodeDist.amountToReceive
        fee == IF fromVertex # originVertex
               THEN computeFee(amountToSend, edge) ELSE 0
        timeLockDelta == IF fromVertex # originVertex
                         THEN edge.TimeLockDelta ELSE 0
        amountToReceive == amountToSend + fee
        totalFee == amountToReceive - c.amt
        weight == edgeWeight(amountToReceive, fee, timeLockDelta)
        tempDist == toNodeDist.dist + weight
        entry == [dist |-> tempDist, node |-> fromVertex,
                  amountToReceive |-> amountToReceive, fee |-> fee]
    IN IF ~isSourceChan /\ edge.Disabled THEN st
       ELSE IF isSourceChan /\ c.r.outgoingChannelID # <<>>
               /\ c.r.outgoingChannelID[1] # edge.ChannelID THEN st
       ELSE IF fromVertex \in c.r.ignoredNodes THEN st
       ELSE IF newEdgeLocator(edge) \in c.r.ignoredEdges THEN st
       ELSE IF bandwidth < amountToSend THEN st
       ELSE IF amountToSend < edge.MinHTLC THEN st
       ELSE IF totalFee > c.r.feeLimit THEN st
       ELSE IF tempDist >= st.distance[fromVertex].dist THEN st
       ELSE IF edge.TimeLockDelta = 0 THEN st
       ELSE [distance |-> [st.distance EXCEPT ![fromVertex] = entry],
             next     |-> [st.next EXCEPT ![fromVertex] = <<edge>>],
             nodeHeap |-> Append(st.nodeHeap, entry)]

\* The bandwidth of a channel: its hint if there is one, else its capacity.
\* The hints map is a set of [chan, bandwidth], one per hinted channel.
Bandwidth(hints, edgeInfo) ==
    IF \E h \in hints : h.chan = edgeInfo.ChannelID
    THEN (CHOOSE h \in hints : h.chan = edgeInfo.ChannelID).bandwidth
    ELSE NewMSatFromSatoshis(edgeInfo.Capacity)

\* bestNode.ForEachChannel: every channel of pivot, from index k on.
RECURSIVE forEachChannel(_, _, _, _)
forEachChannel(c, st, pivot, k) ==
    IF k > Len(c.G.chans) THEN st
    ELSE LET edgeInfo == c.G.chans[k]
             edgeBandwidth == Bandwidth(c.bandwidthHints, edgeInfo)
         IN IF pivot \notin {edgeInfo.NodeKey1, edgeInfo.NodeKey2}
            THEN forEachChannel(c, st, pivot, k + 1)
            ELSE forEachChannel(c,
                     processEdge(c, st, OtherNode(edgeInfo, pivot)[1],
                                 InEdge(edgeInfo, pivot), edgeBandwidth, pivot),
                     pivot, k + 1)

\* The additional edges into pivot; each is [sourceNode, edge].
RECURSIVE forEachAdditional(_, _, _, _, _)
forEachAdditional(c, st, pivot, bandWidth, k) ==
    IF k > Len(c.additionalEdges) THEN st
    ELSE IF c.additionalEdges[k].edge.Node # pivot
         THEN forEachAdditional(c, st, pivot, bandWidth, k + 1)
         ELSE forEachAdditional(c,
                  processEdge(c, st, c.additionalEdges[k].sourceNode,
                              c.additionalEdges[k].edge, bandWidth, pivot),
                  pivot, bandWidth, k + 1)

RECURSIVE findPathLoop(_, _)
findPathLoop(c, st) ==
    IF Len(st.nodeHeap) = 0 THEN st
    ELSE LET k == HeapMinIndex(st.nodeHeap)
             partialPath == st.nodeHeap[k]
             popped == [st EXCEPT !.nodeHeap = HeapRemove(st.nodeHeap, k)]
             pivot == partialPath.node
         IN IF pivot = c.source THEN popped
            ELSE findPathLoop(c,
                     forEachAdditional(c,
                         forEachChannel(c, popped, pivot, 1),
                         pivot, partialPath.amountToReceive, 1))

\* Follow the next-hop map from currentNode to the target.
RECURSIVE unravel(_, _, _)
unravel(c, next, currentNode) ==
    IF currentNode = c.target THEN <<>>
    ELSE next[currentNode] \o unravel(c, next, next[currentNode][1].Node)

findPathInit(c) ==
    LET vertexes == c.G.nodes \cup {c.target}
                    \cup {c.additionalEdges[k].sourceNode :
                              k \in 1..Len(c.additionalEdges)}
        targetEntry == [dist |-> 0, node |-> c.target,
                        amountToReceive |-> c.amt, fee |-> 0]
    IN [distance |-> [v \in vertexes |->
                         IF v = c.target THEN targetEntry
                         ELSE [dist |-> infinity, node |-> v,
                               amountToReceive |-> 0, fee |-> 0]],
        next     |-> [v \in vertexes |-> <<>>],
        nodeHeap |-> <<targetEntry>>]

\* The search and the unravelling of the next-hop map: [path, err].
findPathSearch(c) ==
    LET st == findPathLoop(c, findPathInit(c))
    IN IF st.next[c.source] = <<>>
       THEN [path |-> <<>>, err |-> "ErrNoPathFound"]
       ELSE [path |-> unravel(c, st.next, c.source), err |-> "nil"]

\* findPath called with stopAtMaxHopsExceeded set, as findKPaths calls it:
\* an over-long path is returned together with ErrMaxHopsExceeded.  (The
\* recursion findPath -> findKPaths -> findPath ends here, so the model
\* unrolls it: findKPaths uses this operator, findPath below uses
\* findKPaths.)
findPathOverLong(res) ==
    IF res.err = "nil" /\ Len(res.path) > HopLimit
    THEN [path |-> res.path, err |-> "ErrMaxHopsExceeded"]
    ELSE res

findPathStopAtMax(c) == findPathOverLong(findPathSearch(c))

(***************************************************************************)
(* findKPaths.  ks is [shortestPaths, candidatePaths, validPathsNum].       *)
(***************************************************************************)
\* The edges to ignore for the spur at (1-based) index i of the root path.
spurIgnoredEdges(c, ks, rootPath, i) ==
    c.r.ignoredEdges \cup
    {newEdgeLocator(ks.shortestPaths[m][i + 1]) :
        m \in {n \in 1..Len(ks.shortestPaths) :
                  /\ Len(ks.shortestPaths[n]) > i
                  /\ isSamePath(rootPath, SubSeq(ks.shortestPaths[n], 1, i))}}

spurIgnoredVertexes(rootPath, spurNode) ==
    {rootPath[m].Node : m \in 1..Len(rootPath)} \ {spurNode}

\* The deviation loop over the previous shortest path, from index i on.
RECURSIVE spurLoop(_, _, _, _)
spurLoop(c, ks, prevShortest, i) ==
    IF i > Len(prevShortest) - 1 THEN ks
    ELSE LET spurNode == prevShortest[i].Node
             rootPath == SubSeq(prevShortest, 1, i)
             spur == findPathStopAtMax([c EXCEPT
                         !.source = spurNode,
                         !.r = [ignoredNodes |-> spurIgnoredVertexes(rootPath, spurNode),
                                ignoredEdges |-> spurIgnoredEdges(c, ks, rootPath, i),
                                feeLimit |-> c.r.feeLimit,
                                outgoingChannelID |-> <<>>,
                                stopAtMaxHopsExceeded |-> TRUE]])
         IN IF spur.err = "ErrNoPathFound"
            THEN spurLoop(c, ks, prevShortest, i + 1)
            ELSE LET newPathLen == Len(rootPath) + Len(spur.path)
                 IN IF newPathLen > HopLimit + 1 /\ ks.validPathsNum > 0
                    THEN ks
                    ELSE spurLoop(c,
                             [ks EXCEPT !.candidatePaths =
                                 Append(@, [hops |-> rootPath \o spur.path,
                                            dist |-> newPathLen])],
                             prevShortest, i + 1)

\* The end of an iteration of the outer loop: the shortest candidate
\* becomes the next shortest path.
kPathsPop(ks) ==
    LET m == HeapMinIndex(ks.candidatePaths)
    IN [shortestPaths |-> Append(ks.shortestPaths, ks.candidatePaths[m].hops),
        candidatePaths |-> HeapRemove(ks.candidatePaths, m),
        validPathsNum |-> IF Len(ks.candidatePaths[m].hops) <= HopLimit + 1
                          THEN ks.validPathsNum + 1
                          ELSE ks.validPathsNum]

\* The outer loop, from iteration k on; ks1 is ks after the deviation loop.
RECURSIVE kPathsLoop(_, _, _, _)
kPathsNext(c, ks1, n, k) ==
    IF Len(ks1.candidatePaths) = 0 THEN ks1
    ELSE kPathsLoop(c, kPathsPop(ks1), n, k + 1)

kPathsLoop(c, ks, n, k) ==
    IF ~(ks.validPathsNum < n) THEN ks
    ELSE kPathsNext(c, spurLoop(c, ks, ks.shortestPaths[k], 1), n, k)

\* The paths are not filtered for length.
kPathsResultUnfiltered(c, paths) ==
    IF c.originVertex # <<>> /\ c.source # c.originVertex[1]
    THEN [m \in 1..Len(paths) |-> Tail(paths[m])]
    ELSE paths

\* The paths that are not too long, without the self edge when the source
\* is not the origin.
kPathsResult(c, paths) ==
    LET fShortestPaths == SelectSeq(paths, LAMBDA p : Len(p) <= HopLimit + 1)
    IN IF c.originVertex # <<>> /\ c.source # c.originVertex[1]
       THEN [m \in 1..Len(fShortestPaths) |-> Tail(fShortestPaths[m])]
       ELSE fShortestPaths

\* findKPaths: [paths, err].
findKPaths(c, path0, n) ==
    [paths |-> kPathsResult(c,
                   kPathsLoop(c,
                       [shortestPaths |-> <<<<SelfEdge(c.source)>> \o path0>>,
                        candidatePaths |-> <<>>,
                        validPathsNum |->
                            IF Len(path0) + 1 <= HopLimit + 1 THEN 1 ELSE 0],
                       n, 1).shortestPaths),
     err |-> "nil"]

\* The outcome of the second attempt findPath makes through findKPaths.
findPathRetry(pathKEdges) ==
    IF pathKEdges.err # "nil" \/ Len(pathKEdges.paths) = 0
    THEN [path |-> <<>>, err |-> "ErrMaxHopsExceeded"]
    ELSE [path |-> Tail(pathKEdges.paths[1]), err |-> "nil"]

\* The hop limit without regard to stopAtMaxHopsExceeded: an over-long path
\* always leads into findKPaths.
findPathHopLimitAlwaysRetry(c, res) ==
    IF res.err = "nil" /\ Len(res.path) > HopLimit
    THEN findPathRetry(findKPaths(c, res.path, 1))
    ELSE res

\* The hop limit, for the outcome res of the search.
findPathHopLimit(c, res) ==
    IF res.err = "nil" /\ Len(res.path) > HopLimit
    THEN IF c.r.stopAtMaxHopsExceeded
         THEN [path |-> res.path, err |-> "ErrMaxHopsExceeded"]
         ELSE findPathRetry(findKPaths(c, res.path, 1))
    ELSE res

\* findPath: [path, err].
findPath(c) == findPathHopLimit(c, findPathSearch(c))

(***************************************************************************)
(* prepareHopPegs: [pegs, err].  A peg is [NodeID, ChannelID].              *)
(***************************************************************************)
\* The first loop: a channel peg is preceded by the channel's other end.
RECURSIVE expandPegs(_, _, _, _)
expandPegs(G, in, i, expanded) ==
    IF i > Len(in) THEN [pegs |-> expanded, err |-> "nil"]
    ELSE LET peg == in[i]
             edgeInfo == FetchChannelEdgesByID(G, peg.ChannelID)
         IN IF peg.ChannelID = 0
            THEN expandPegs(G, in, i + 1, Append(expanded, peg))
            ELSE IF i = 1
                 THEN [pegs |-> <<>>, err |-> "ErrPegNotInNetwork"]
            ELSE IF edgeInfo = <<>>
                 THEN [pegs |-> <<>>, err |-> "ErrEdgeNotFound"]
            ELSE IF OtherNode(edgeInfo[1], peg.NodeID) = <<>>
                 THEN [pegs |-> <<>>, err |-> "ErrNodeNotInChannel"]
            ELSE expandPegs(G, in, i + 1,
                     expanded \o <<[NodeID |-> OtherNode(edgeInfo[1], peg.NodeID)[1],
                                    ChannelID |-> 0], peg>>)

\* Every peg without channel but the first is dropped, whatever its node.
dedupPegsAnyNode(expanded) ==
    LET keep == {i \in 1..Len(expanded) :
                    ~(/\ expanded[i].ChannelID = 0
                      /\ i > 1)}
        pos(n) == CHOOSE i \in keep :
                      Cardinality({m \in keep : m <= i}) = n
    IN [n \in 1..Cardinality(keep) |-> expanded[pos(n)]]

\* The second loop: drop a peg without channel that repeats the entry
\* before it.
dedupPegs(expanded) ==
    LET keep == {i \in 1..Len(expanded) :
                    ~(/\ expanded[i].ChannelID = 0
                      /\ i > 1
                      /\ expanded[i].NodeID = expanded[i - 1].NodeID)}
        pos(n) == CHOOSE i \in keep :
                      Cardinality({m \in keep : m <= i}) = n
    IN [n \in 1..Cardinality(keep) |-> expanded[pos(n)]]

prepareHopPegs(G, in) ==
    LET e == expandPegs(G, in, 1, <<>>)
    IN IF e.err # "nil" THEN e
       ELSE IF Len(e.pegs) < 2 THEN e
       ELSE [pegs |-> dedupPegs(e.pegs), err |-> "nil"]

(***************************************************************************)
(* Inputs.  Amounts are millisatoshi, capacities satoshi.                   *)
(***************************************************************************)
MaxPegs == 1

MaxNumPaths == 2

MaxRouteLen == 3

\* Sequences over S of length at most n.
SeqsUpTo(S, n) == UNION {[1..m -> S] : m \in 0..n}

\* A channel whose two policies differ in base fee and disabled bit only.
Chan(id, n1, n2, cap, base1, base2, dis1, dis2) ==
    [ChannelID |-> id, NodeKey1 |-> n1, NodeKey2 |-> n2, Capacity |-> cap,
     p1 |-> Policy(id, n2, 0, base1, 0, 100, 1, dis1),
     p2 |-> Policy(id, n1, 1, base2, 0, 100, 1, dis2)]

\* Five nodes: 1 -- 2 -- 3 -- 5 with the detour 3 -- 4 -- 5.  Node 2 asks
\* fee2 for 2 -> 3, node 4 asks fee4 for 4 -> 5, and 3 -> 4 may be disabled.
Net(fee2, fee4, dis34) ==
    [nodes |-> 1..5,
     chans |-> <<Chan(1, 1, 2, 1001, 0, 0, FALSE, FALSE),
                 Chan(2, 2, 3, 1001, fee2, 0, FALSE, FALSE),
                 Chan(3, 3, 5, 1001, 0, 0, FALSE, FALSE),
                 Chan(4, 3, 4, 1001, 0, 0, dis34, FALSE),
                 Chan(5, 4, 5, 1001, fee4, 0, FALSE, FALSE)>>]

\* A line of n channels: 1 -- 2 -- ... -- n+1.
Chain(n) ==
    [nodes |-> 1..(n + 1),
     chans |-> [k \in 1..n |-> Chan(k, k, k + 1, 1001, 0, 0, FALSE, FALSE)]]

\* A line of n channels from node 1 on which every hop is free, and the
\* channel n+1 from node 3 straight to the last node, for which node 3
\* asks a fee: the cheapest path is the line, the shortest the shortcut.
Shortcut(n) ==
    [nodes |-> 1..(n + 1),
     chans |-> [k \in 1..n |-> Chan(k, k, k + 1, 1001, 0, 0, FALSE, FALSE)]
               \o <<Chan(n + 1, 3, n + 1, 1001, 500, 0, FALSE, FALSE)>>]

Peg(v, id) == [NodeID |-> v, ChannelID |-> id]

NetScenarios ==
    {[graph |-> Net(fee2, fee4, dis34), source |-> 1, target |-> 5,
      hints |-> {{}, {[chan |-> 2, bandwidth |-> 1000000]}},
      pegChoices |-> {Peg(1, 0), Peg(2, 0), Peg(3, 0), Peg(4, 0), Peg(2, 1),
                      Peg(4, 4), Peg(3, 4), Peg(4, 5), Peg(5, 4), Peg(2, 9)}] :
        fee2 \in {0, 500}, fee4 \in {0, 500}, dis34 \in BOOLEAN}

ChainScenarios ==
    {[graph |-> Chain(n), source |-> 1, target |-> n + 1,
      hints |-> {{}},
      pegChoices |-> {Peg(n \div 2, 0)}] :
        n \in (HopLimit - 1)..(HopLimit + 1)}

ShortcutScenarios ==
    {[graph |-> Shortcut(HopLimit + 2), source |-> 1, target |-> HopLimit + 3,
      hints |-> {{}},
      pegChoices |-> {Peg(2, 0)}]}

Scenarios == NetScenarios \cup ChainScenarios \cup ShortcutScenarios

\* No call of findPath or findKPaths on its own is under way.
\* The locals of findKPaths before the call.
NoLoop ==
    [ks |-> [shortestPaths |-> <<>>, candidatePaths |-> <<>>,
             validPathsNum |-> 0],
     k |-> 0]

NoSearch ==
    /\ gOriginVertex = <<>>
    /\ outgoingChannelID = <<>>
    /\ seed = [path |-> <<>>, err |-> "nil"]
    /\ pathFound = [path |-> <<>>, err |-> "nil"]
    /\ kPaths = [paths |-> <<>>, err |-> "nil"]
    /\ kLoop = NoLoop

(***************************************************************************)
(* findPaths, one action per stage.                                         *)
(***************************************************************************)
Init ==
    /\ pc = "prepareHopPegs"
    /\ \E sc \in Scenarios :
        /\ graph = sc.graph
        /\ source = sc.source
        /\ target = sc.target
        /\ bandwidthHints \in sc.hints
        /\ additionalPegs \in SeqsUpTo(sc.pegChoices, MaxPegs)
    /\ amt = 1000000
    /\ feeLimit \in {500, noFeeLimit}
    /\ numPaths \in 1..MaxNumPaths
    /\ pegs = <<>>
    /\ segPaths = <<>>
    /\ segParams = <<>>
    /\ startingPath = <<>>
    /\ startingPathFee = 0
    /\ ignoredEdges = {}
    /\ candidatePaths = <<>>
    /\ shortestPaths = <<>>
    /\ segIdx = 0
    /\ tooLong = {}
    /\ err = "nil"
    /\ pathEdges = <<>>
    /\ currentHeight = 0
    /\ finalCLTVDelta = 0
    /\ route = <<>>
    /\ NoSearch

\* findPaths returns err (and no paths).
Fail(e) ==
    /\ pc' = "done"
    /\ err' = e

\* Source and target become the first and last peg; prepareHopPegs.
PrepareHopPegs ==
    /\ pc = "prepareHopPegs"
    /\ LET res == prepareHopPegs(graph,
                      <<Peg(source, 0)>> \o additionalPegs \o <<Peg(target, 0)>>)
       IN IF res.err # "nil"
          THEN /\ Fail(res.err)
               /\ UNCHANGED <<pegs, segIdx>>
          ELSE /\ pegs' = res.pegs
               /\ segIdx' = 1
               /\ pc' = IF Len(res.pegs) > 1 THEN "segments" ELSE "checkFee"
               /\ err' = "nil"
    /\ UNCHANGED <<graph, source, target, amt, feeLimit, numPaths,
                   bandwidthHints, additionalPegs, segPaths, segParams,
                   startingPath, startingPathFee, ignoredEdges,
                   candidatePaths, shortestPaths, tooLong>>
    /\ UNCHANGED newRouteVars
    /\ UNCHANGED searchVars

\* What the segment loop does with segPath, the path of segment segIdx.
KeepSegment(segPath) ==
    /\ ignoredEdges' = ignoredEdges \cup
                       {newEdgeLocator(segPath[k]) : k \in 1..Len(segPath)}
    /\ startingPath' = startingPath \o segPath
    /\ segPaths' = Append(segPaths, segPath)
    /\ segParams' = Append(segParams,
                           [src |-> pegs[segIdx].NodeID,
                            dest |-> pegs[segIdx + 1].NodeID,
                            pegged |-> pegs[segIdx + 1].ChannelID # 0])
    /\ segIdx' = segIdx + 1
    /\ pc' = IF segIdx + 1 < Len(pegs) THEN "segments" ELSE "checkFee"
    /\ err' = "nil"

\* The call of findPath or findKPaths findPaths makes for a segment.
SegmentCall(src, dest, ignored, limit) ==
    [G |-> graph, bandwidthHints |-> bandwidthHints, additionalEdges |-> <<>>,
     originVertex |-> <<source>>, source |-> src, target |-> dest,
     amt |-> amt,
     r |-> [ignoredNodes |-> {}, ignoredEdges |-> ignored, feeLimit |-> limit,
            outgoingChannelID |-> <<>>, stopAtMaxHopsExceeded |-> FALSE]]

\* The segment loop goes on with res, the outcome for segment segIdx.
SegmentDone(res) ==
    IF res.err # "nil"
    THEN /\ Fail(res.err)
         /\ UNCHANGED <<ignoredEdges, startingPath, segPaths, segParams,
                        segIdx>>
    ELSE KeepSegment(res.path)

\* A segment into a peg without channel: the shortest path to it.
SegmentFindPath ==
    /\ pc = "segments"
    /\ pegs[segIdx + 1].ChannelID = 0
    /\ SegmentDone(IF pegs[segIdx].NodeID \notin graph.nodes
                   THEN [path |-> <<>>, err |-> "ErrGraphNodeNotFound"]
                   ELSE findPath(SegmentCall(pegs[segIdx].NodeID,
                                             pegs[segIdx + 1].NodeID,
                                             ignoredEdges, feeLimit)))
    /\ UNCHANGED <<graph, source, target, amt, feeLimit, numPaths,
                   bandwidthHints, additionalPegs, pegs, startingPathFee,
                   candidatePaths, shortestPaths, tooLong>>
    /\ UNCHANGED newRouteVars
    /\ UNCHANGED searchVars

\* The policy of the other direction: the edge that leaves the peg.
peggedPolicyLeaving(info, nodeID) ==
    IF nodeID = info.NodeKey2 THEN info.p2 ELSE info.p1

\* The policy findPaths selects for a channel peg at nodeID.
peggedPolicy(info, nodeID) ==
    IF nodeID = info.NodeKey2 THEN info.p1 ELSE info.p2

\* A segment into a peg with a channel: that channel's policy into the peg.
SegmentPegged ==
    /\ pc = "segments"
    /\ pegs[segIdx + 1].ChannelID # 0
    /\ LET info == FetchChannelEdgesByID(graph, pegs[segIdx + 1].ChannelID)
       IN SegmentDone(
              IF pegs[segIdx].NodeID \notin graph.nodes
              THEN [path |-> <<>>, err |-> "ErrGraphNodeNotFound"]
              ELSE IF info = <<>>
              THEN [path |-> <<>>, err |-> "ErrEdgeNotFound"]
              ELSE [path |-> <<peggedPolicy(info[1], pegs[segIdx + 1].NodeID)>>,
                    err |-> "nil"])
    /\ UNCHANGED <<graph, source, target, amt, feeLimit, numPaths,
                   bandwidthHints, additionalPegs, pegs, startingPathFee,
                   candidatePaths, shortestPaths, tooLong>>
    /\ UNCHANGED newRouteVars
    /\ UNCHANGED searchVars

\* The fee of the stitched path against the limit.
CheckStartingPathFee ==
    /\ pc = "checkFee"
    /\ startingPathFee' = computePathFee(amt, startingPath)
    /\ IF startingPathFee' > feeLimit
       THEN Fail("ErrNoRouteFound")
       ELSE /\ pc' = IF Len(segPaths) >= 1 THEN "kPaths" ELSE "select"
            /\ err' = "nil"
    /\ segIdx' = 1
    /\ UNCHANGED <<graph, source, target, amt, feeLimit, numPaths,
                   bandwidthHints, additionalPegs, pegs, segPaths, segParams,
                   startingPath, ignoredEdges, candidatePaths, shortestPaths,
                   tooLong>>
    /\ UNCHANGED newRouteVars
    /\ UNCHANGED searchVars

stitchPath(segs, i, path) ==
    LET RECURSIVE cat(_)
        cat(j) == IF j > Len(segs) THEN <<>>
                  ELSE (IF i = j THEN path ELSE segs[j]) \o cat(j + 1)
    IN cat(1)

\* The loop over the paths findKPaths found for segment i, from index j on.
\* acc is [segPaths, candidatePaths, tooLong].
RECURSIVE stitchLoop(_, _, _, _)
stitchLoop(acc, i, segKPaths, j) ==
    IF j > Len(segKPaths) THEN acc
    ELSE IF i # 1 /\ j = 1 THEN stitchLoop(acc, i, segKPaths, j + 1)
    ELSE LET segs == IF i = 1 /\ j = 1
                     THEN [acc.segPaths EXCEPT ![1] = segKPaths[j]]
                     ELSE acc.segPaths
             stitchedPath == stitchPath(segs, i, segKPaths[j])
         IN IF Len(stitchedPath) > HopLimit
            THEN stitchLoop([acc EXCEPT !.segPaths = segs,
                                        !.tooLong = @ \cup {stitchedPath}],
                            i, segKPaths, j + 1)
            ELSE stitchLoop([acc EXCEPT !.segPaths = segs,
                                        !.candidatePaths =
                                            Append(@, [hops |-> stitchedPath,
                                                       dist |-> Len(stitchedPath)])],
                            i, segKPaths, j + 1)

\* The outcome acc of the stitching loop becomes the state.
Stitched(acc) ==
    /\ segPaths' = acc.segPaths
    /\ candidatePaths' = acc.candidatePaths
    /\ tooLong' = acc.tooLong

nextKPathsPc == IF segIdx < Len(segPaths) THEN "kPaths" ELSE "select"

\* Alternatives for a searched segment, each stitched to the other
\* segments' shortest paths.
SegmentKPaths ==
    /\ pc = "kPaths"
    /\ ~segParams[segIdx].pegged
    /\ LET sFeeLimit == IF feeLimit # noFeeLimit
                        THEN feeLimit - startingPathFee
                                 + computePathFee(amt, segPaths[segIdx])
                        ELSE noFeeLimit
           sIgnoredEdges == ignoredEdges \
                            {newEdgeLocator(segPaths[segIdx][k]) :
                                 k \in 1..Len(segPaths[segIdx])}
       IN Stitched(stitchLoop([segPaths |-> segPaths,
                               candidatePaths |-> candidatePaths,
                               tooLong |-> tooLong],
                              segIdx,
                              findKPaths(SegmentCall(segParams[segIdx].src,
                                                     segParams[segIdx].dest,
                                                     sIgnoredEdges, sFeeLimit),
                                         segPaths[segIdx], numPaths).paths,
                              1))
    /\ segIdx' = segIdx + 1
    /\ pc' = nextKPathsPc
    /\ UNCHANGED <<graph, source, target, amt, feeLimit, numPaths,
                   bandwidthHints, additionalPegs, pegs, segParams,
                   startingPath, startingPathFee, ignoredEdges, shortestPaths,
                   err>>
    /\ UNCHANGED newRouteVars
    /\ UNCHANGED searchVars

\* A segment fixed by a channel peg has no alternatives.
SkipPeggedSegment ==
    /\ pc = "kPaths"
    /\ segParams[segIdx].pegged
    /\ segIdx' = segIdx + 1
    /\ pc' = nextKPathsPc
    /\ UNCHANGED <<graph, source, target, amt, feeLimit, numPaths,
                   bandwidthHints, additionalPegs, pegs, segPaths, segParams,
                   startingPath, startingPathFee, ignoredEdges,
                   candidatePaths, shortestPaths, tooLong, err>>
    /\ UNCHANGED newRouteVars
    /\ UNCHANGED searchVars

\* Pop up to n candidates, shortest first.
RECURSIVE selectLoop(_, _, _)
selectLoop(heap, n, k) ==
    IF ~(k < n) \/ Len(heap) = 0 THEN <<>>
    ELSE LET m == HeapMinIndex(heap)
         IN <<heap[m].hops>> \o selectLoop(HeapRemove(heap, m), n, k + 1)

SelectBest ==
    /\ pc = "select"
    /\ shortestPaths' = selectLoop(candidatePaths, numPaths, 0)
    /\ pc' = "done"
    /\ UNCHANGED <<graph, source, target, amt, feeLimit, numPaths,
                   bandwidthHints, additionalPegs, pegs, segPaths, segParams,
                   startingPath, startingPathFee, ignoredEdges,
                   candidatePaths, segIdx, tooLong, err>>
    /\ UNCHANGED newRouteVars
    /\ UNCHANGED searchVars

Next ==
    \/ PrepareHopPegs
    \/ SegmentFindPath
    \/ SegmentPegged
    \/ CheckStartingPathFee
    \/ SegmentKPaths
    \/ SkipPeggedSegment
    \/ SelectBest

Spec == Init /\ [][Next]_vars

(***************************************************************************)
(* newRoute on its own: the inputs are drawn from small sets.               *)
(***************************************************************************)
\* The edge at position k of a path 1 -> 2 -> ... of channels 1, 2, ...
RouteEdges(k) ==
    {Policy(k, k + 1, 0, base, rate, delta, 1, FALSE) :
        base \in {0, 1000}, rate \in {0, 1000}, delta \in {40, 144}}

\* A path of one edge more than the hop limit, every hop free.
LongRoutePath ==
    [k \in 1..(HopLimit + 1) |-> Policy(k, k + 1, 0, 0, 0, 40, 1, FALSE)]

RoutePaths ==
    UNION {{p \in [1..m -> UNION {RouteEdges(k) : k \in 1..m}] :
               \A k \in 1..m : p[k] \in RouteEdges(k)} : m \in 0..MaxRouteLen}
    \cup {LongRoutePath}

InitRoute ==
    /\ pc = "newRoute"
    /\ graph = [nodes |-> {}, chans |-> <<>>]
    /\ source = 1
    /\ target = 1
    /\ bandwidthHints = {}
    /\ additionalPegs = <<>>
    /\ amt = 100000
    /\ feeLimit \in {500, 1100, noFeeLimit}
    /\ numPaths = 0
    /\ pegs = <<>>
    /\ segPaths = <<>>
    /\ segParams = <<>>
    /\ startingPath = <<>>
    /\ startingPathFee = 0
    /\ ignoredEdges = {}
    /\ candidatePaths = <<>>
    /\ shortestPaths = <<>>
    /\ segIdx = 0
    /\ tooLong = {}
    /\ err = "nil"
    /\ pathEdges \in RoutePaths
    /\ currentHeight = 100
    /\ finalCLTVDelta \in {0, 9}
    /\ route = <<>>
    /\ NoSearch

NewRoute ==
    /\ pc = "newRoute"
    /\ LET res == newRoute(amt, feeLimit, source, pathEdges, currentHeight,
                           finalCLTVDelta)
       IN /\ route' = res.route
          /\ err' = res.err
    /\ pc' = "done"
    /\ UNCHANGED <<pathEdges, currentHeight, finalCLTVDelta, source, amt,
                   feeLimit>>
    /\ UNCHANGED findPathsVars
    /\ UNCHANGED searchVars

NextRoute == NewRoute

SpecRoute == InitRoute /\ [][NextRoute]_vars

(***************************************************************************)
(* findPath and findKPaths on their own: the search, the hop limit, and a   *)
(* call of findKPaths with the path the search found as its seed.           *)
(***************************************************************************)
MaxKPaths == 4

\* 1 -- 2 -- 3 with the detours 2 -- 4 -- 3 and 1 -- 5 -- 6 -- 7 -- 3; every
\* hop is free.
Diamond ==
    [nodes |-> 1..7,
     chans |-> <<Chan(1, 1, 2, 1001, 0, 0, FALSE, FALSE),
                 Chan(2, 2, 3, 1001, 0, 0, FALSE, FALSE),
                 Chan(3, 2, 4, 1001, 0, 0, FALSE, FALSE),
                 Chan(4, 4, 3, 1001, 0, 0, FALSE, FALSE),
                 Chan(5, 1, 5, 1001, 0, 0, FALSE, FALSE),
                 Chan(6, 5, 6, 1001, 0, 0, FALSE, FALSE),
                 Chan(7, 6, 7, 1001, 0, 0, FALSE, FALSE),
                 Chan(8, 7, 3, 1001, 0, 0, FALSE, FALSE)>>]

\* Nodes 1, 2, 3 and the one channel 1 -- 2, whose policy toward 2 varies.
Single(cap, minHTLC, dis, delta, base) ==
    [nodes |-> 1..3,
     chans |-> <<[ChannelID |-> 1, NodeKey1 |-> 1, NodeKey2 |-> 2,
                  Capacity |-> cap,
                  p1 |-> Policy(1, 2, 0, base, 0, delta, minHTLC, dis),
                  p2 |-> Policy(1, 1, 1, 0, 0, 40, 1, FALSE)]>>]

\* A line of n channels and the channel n+1 from node 1 straight to the
\* last node.
Bypass(n) ==
    [nodes |-> 1..(n + 1),
     chans |-> [k \in 1..n |-> Chan(k, k, k + 1, 1001, 0, 0, FALSE, FALSE)]
               \o <<Chan(n + 1, 1, n + 1, 1001, 0, 0, FALSE, FALSE)>>]

\* A line of n channels and a second channel, n+1, between nodes 1 and 2.
Twin(n) ==
    [nodes |-> 1..(n + 1),
     chans |-> [k \in 1..n |-> Chan(k, k, k + 1, 1001, 0, 0, FALSE, FALSE)]
               \o <<Chan(n + 1, 1, 2, 1001, 0, 0, FALSE, FALSE)>>]

\* From 2 the target 4 is reached directly for a fee of 1, or for free over
\* 3 and 5; 1 reaches 4 over 2, or over 6 for a fee of 500.
Fork ==
    [nodes |-> 1..6,
     chans |-> <<Chan(1, 1, 2, 1001, 0, 0, FALSE, FALSE),
                 Chan(2, 2, 4, 1001, 1, 0, FALSE, FALSE),
                 Chan(3, 2, 3, 1001, 0, 0, FALSE, FALSE),
                 Chan(4, 3, 5, 1001, 0, 0, FALSE, FALSE),
                 Chan(5, 5, 4, 1001, 0, 0, FALSE, FALSE),
                 Chan(6, 1, 6, 1001, 0, 0, FALSE, FALSE),
                 Chan(7, 6, 4, 1001, 500, 0, FALSE, FALSE)>>]

SearchCase(G, src, dest, hints, origins, outChans) ==
    [graph |-> G, source |-> src, target |-> dest, hints |-> hints,
     origins |-> origins, outChans |-> outChans]

SearchScenarios ==
    {SearchCase(Net(fee2, fee4, dis34), 1, 5, {{}}, {<<>>, <<1>>}, {<<>>}) :
         fee2 \in {0, 500}, fee4 \in {0, 500}, dis34 \in BOOLEAN}
    \cup {SearchCase(Single(cap, minHTLC, dis, delta, base), 1, 2, {{}},
                     {<<>>, <<1>>, <<3>>}, {<<>>}) :
              cap \in {999, 1000}, minHTLC \in {1, 1000001}, dis \in BOOLEAN,
              delta \in {0, 40}, base \in {0, 600}}
    \cup {SearchCase(Diamond, 1, 3, {{}}, {<<>>, <<1>>}, {<<>>}),
          SearchCase(Shortcut(5), 1, 6, {{}}, {<<>>, <<1>>}, {<<>>}),
          SearchCase(Chain(HopLimit), 1, HopLimit + 1, {{}}, {<<>>}, {<<>>}),
          SearchCase(Chain(HopLimit + 1), 1, HopLimit + 2, {{}}, {<<>>},
                     {<<>>}),
          SearchCase(Shortcut(HopLimit + 2), 1, HopLimit + 3, {{}},
                     {<<>>, <<1>>}, {<<>>}),
          SearchCase(Shortcut(HopLimit + 2), 2, HopLimit + 3, {{}},
                     {<<2>>, <<1>>}, {<<>>}),
          SearchCase(Bypass(HopLimit + 1), 1, HopLimit + 2, {{}}, {<<>>},
                     {<<>>, <<1>>, <<HopLimit + 2>>}),
          SearchCase(Twin(HopLimit + 1), 1, HopLimit + 2, {{}}, {<<>>},
                     {<<>>}),
          SearchCase(Fork, 1, 4, {{}, {[chan |-> 1, bandwidth |-> 1000000]}},
                     {<<>>}, {<<>>, <<1>>})}

InitSearch ==
    /\ pc = "search"
    /\ \E sc \in SearchScenarios :
        /\ graph = sc.graph
        /\ source = sc.source
        /\ target = sc.target
        /\ bandwidthHints \in sc.hints
        /\ gOriginVertex \in sc.origins
        /\ outgoingChannelID \in sc.outChans
    /\ amt = 1000000
    /\ feeLimit \in {500, noFeeLimit}
    /\ numPaths \in 1..MaxKPaths
    /\ additionalPegs = <<>>
    /\ pegs = <<>>
    /\ segPaths = <<>>
    /\ segParams = <<>>
    /\ startingPath = <<>>
    /\ startingPathFee = 0
    /\ ignoredEdges = {}
    /\ candidatePaths = <<>>
    /\ shortestPaths = <<>>
    /\ segIdx = 0
    /\ tooLong = {}
    /\ err = "nil"
    /\ pathEdges = <<>>
    /\ currentHeight = 0
    /\ finalCLTVDelta = 0
    /\ route = <<>>
    /\ seed = [path |-> <<>>, err |-> "nil"]
    /\ pathFound = [path |-> <<>>, err |-> "nil"]
    /\ kPaths = [paths |-> <<>>, err |-> "nil"]
    /\ kLoop = NoLoop

\* The call under way: its graphParams and restrictParams.
SearchCall ==
    [G |-> graph, bandwidthHints |-> bandwidthHints, additionalEdges |-> <<>>,
     originVertex |-> gOriginVertex, source |-> source, target |-> target,
     amt |-> amt,
     r |-> [ignoredNodes |-> {}, ignoredEdges |-> {}, feeLimit |-> feeLimit,
            outgoingChannelID |-> outgoingChannelID,
            stopAtMaxHopsExceeded |-> FALSE]]

searchInputs == <<graph, source, target, amt, feeLimit, numPaths,
                  bandwidthHints, gOriginVertex, outgoingChannelID>>

searchIdle == <<additionalPegs, pegs, segPaths, segParams, startingPath,
                startingPathFee, ignoredEdges, candidatePaths, shortestPaths,
                segIdx, tooLong, err>>

\* findPath up to the reconstruction of the path from the next-hop map.
Search ==
    /\ pc = "search"
    /\ seed' = findPathSearch(SearchCall)
    /\ pc' = "hopLimit"
    /\ UNCHANGED <<pathFound, kPaths, kLoop>>
    /\ UNCHANGED searchInputs
    /\ UNCHANGED searchIdle
    /\ UNCHANGED newRouteVars

\* The rest of findPath: the hop limit, with its retry through findKPaths.
HopLimitCheck ==
    /\ pc = "hopLimit"
    /\ pathFound' = findPathHopLimit(SearchCall, seed)
    /\ pc' = IF seed.err = "nil" THEN "findKPaths" ELSE "done"
    /\ UNCHANGED <<seed, kPaths, kLoop>>
    /\ UNCHANGED searchInputs
    /\ UNCHANGED searchIdle
    /\ UNCHANGED newRouteVars

\* findKPaths, called with the path the search found.
FindKPaths ==
    /\ pc = "findKPaths"
    /\ kPaths' = findKPaths(SearchCall, seed.path, numPaths)
    /\ pc' = "done"
    /\ UNCHANGED <<seed, pathFound, kLoop>>
    /\ UNCHANGED searchInputs
    /\ UNCHANGED searchIdle
    /\ UNCHANGED newRouteVars

NextSearch ==
    \/ Search
    \/ HopLimitCheck
    \/ FindKPaths

SpecSearch == InitSearch /\ [][NextSearch]_vars

(***************************************************************************)
(* findKPaths, one action per iteration of its outer loop.                  *)
(***************************************************************************)
MaxIter == 12

\* The self edge and the starting path become the first shortest path.
KPathsStart ==
    /\ pc = "findKPaths"
    /\ kLoop' = [ks |-> [shortestPaths |->
                             <<<<SelfEdge(source)>> \o seed.path>>,
                         candidatePaths |-> <<>>,
                         validPathsNum |->
                             IF Len(seed.path) + 1 <= HopLimit + 1
                             THEN 1 ELSE 0],
                 k |-> 1]
    /\ pc' = "kLoop"
    /\ UNCHANGED <<seed, pathFound, kPaths>>
    /\ UNCHANGED searchInputs
    /\ UNCHANGED searchIdle
    /\ UNCHANGED newRouteVars

\* One iteration: the deviations from the previous shortest path, then
\* the shortest candidate becomes the next shortest path, or the loop
\* ends because there is no candidate.
KPathsIter ==
    /\ pc = "kLoop"
    /\ kLoop.ks.validPathsNum < numPaths
    /\ kLoop.k <= MaxIter
    /\ LET ks1 == spurLoop(SearchCall, kLoop.ks,
                           kLoop.ks.shortestPaths[kLoop.k], 1)
       IN IF Len(ks1.candidatePaths) = 0
          THEN /\ kLoop' = [ks |-> ks1, k |-> kLoop.k]
               /\ pc' = "filter"
          ELSE /\ kLoop' = [ks |-> kPathsPop(ks1), k |-> kLoop.k + 1]
               /\ pc' = "kLoop"
    /\ UNCHANGED <<seed, pathFound, kPaths>>
    /\ UNCHANGED searchInputs
    /\ UNCHANGED searchIdle
    /\ UNCHANGED newRouteVars

\* The loop ends because enough valid paths are confirmed.
KPathsExit ==
    /\ pc = "kLoop"
    /\ ~(kLoop.ks.validPathsNum < numPaths)
    /\ pc' = "filter"
    /\ UNCHANGED <<seed, pathFound, kPaths, kLoop>>
    /\ UNCHANGED searchInputs
    /\ UNCHANGED searchIdle
    /\ UNCHANGED newRouteVars

\* The filter for length and the return.
KPathsFilter ==
    /\ pc = "filter"
    /\ kPaths' = [paths |-> kPathsResult(SearchCall, kLoop.ks.shortestPaths),
                  err |-> "nil"]
    /\ pc' = "done"
    /\ UNCHANGED <<seed, pathFound, kLoop>>
    /\ UNCHANGED searchInputs
    /\ UNCHANGED searchIdle
    /\ UNCHANGED newRouteVars

NextKPaths ==
    \/ Search
    \/ HopLimitCheck
    \/ KPathsStart
    \/ KPathsIter
    \/ KPathsExit
    \/ KPathsFilter

SpecKPaths == InitSearch /\ [][NextKPaths]_vars

(***************************************************************************)
(* Properties of the paths findPaths returns.                               *)
(***************************************************************************)
Returned == pc = "done" /\ err = "nil"

\* The channel edges of a path: the path without a leading self edge.
ChannelEdges(p) == SelectSeq(p, LAMBDA e : e.ChannelID # 0)

\* The vertices a path visits: the source, then each edge's destination.
Vertexes(p) ==
    <<source>> \o [k \in 1..Len(ChannelEdges(p)) |-> ChannelEdges(p)[k].Node]

NoDuplicates(q) == \A i, j \in 1..Len(q) : i # j => q[i] # q[j]

\* The amount that crosses the edge at index i of the channel edges e: the
\* payment plus the fees of the edges after it.
AmountCrossing(e, i) == amt + computePathFee(amt, SubSeq(e, i, Len(e)))

EdgeBandwidth(edge) ==
    Bandwidth(bandwidthHints, FetchChannelEdgesByID(graph, edge.ChannelID)[1])

\* C1: every returned path's total fee for delivering amt, as computePathFee
\* charges it over the path's channel edges, is at most feeLimit.
C1_FeeWithinLimit ==
    Returned =>
        \A k \in 1..Len(shortestPaths) :
            computePathFee(amt, ChannelEdges(shortestPaths[k])) <= feeLimit

\* C2: every returned path is loop-free: its source and the destinations
\* of its channel edges are pairwise distinct.
C2_LoopFree ==
    Returned =>
        \A k \in 1..Len(shortestPaths) :
            NoDuplicates(Vertexes(shortestPaths[k]))

\* C3: no returned path has the same channel id on two of its hops.
C3_ChannelsUnique ==
    Returned =>
        \A k \in 1..Len(shortestPaths) :
            LET e == ChannelEdges(shortestPaths[k])
            IN NoDuplicates([i \in 1..Len(e) |-> e[i].ChannelID])

\* C4: on every returned path the amount that crosses a channel edge is at
\* least the edge's MinHTLC and at most the edge's bandwidth (its channel's
\* hint if there is one, else the channel's capacity).
C4_AmountsFit ==
    Returned =>
        \A k \in 1..Len(shortestPaths) :
            LET e == ChannelEdges(shortestPaths[k])
            IN \A i \in 1..Len(e) :
                /\ AmountCrossing(e, i) >= e[i].MinHTLC
                /\ AmountCrossing(e, i) <= EdgeBandwidth(e[i])

\* C5: a returned path traverses a disabled edge only out of the origin.
C5_NoDisabledEdge ==
    Returned =>
        \A k \in 1..Len(shortestPaths) :
            LET e == ChannelEdges(shortestPaths[k])
            IN \A i \in 1..Len(e) :
                e[i].Disabled => EdgeTail(graph, e[i]) = source

\* Path p reaches the additional pegs in their order: there are positions,
\* never decreasing, at which p's vertices are the pegs' nodes, and a peg
\* with a channel is entered there by an edge of that channel whose tail is
\* the channel's other end.  (A peg that is the source is reached where the
\* path starts.)
PegsReached(p) ==
    LET e == ChannelEdges(p)
        v == Vertexes(p)
        n == Len(additionalPegs)
    IN \E f \in [1..n -> 1..Len(v)] :
        /\ \A k \in 1..(n - 1) : f[k] <= f[k + 1]
        /\ \A k \in 1..n :
            /\ v[f[k]] = additionalPegs[k].NodeID
            /\ additionalPegs[k].ChannelID # 0 =>
                /\ f[k] >= 2
                /\ e[f[k] - 1].ChannelID = additionalPegs[k].ChannelID
                /\ <<EdgeTail(graph, e[f[k] - 1])>> =
                       OtherNode(FetchChannelEdgesByID(
                                     graph, additionalPegs[k].ChannelID)[1],
                                 additionalPegs[k].NodeID)

C7_BasePathReturned ==
    (Returned /\ numPaths >= 1 /\ Len(startingPath) <= HopLimit) =>
        /\ Len(shortestPaths) >= 1
        /\ Len(shortestPaths) <= numPaths
        /\ \E k \in 1..Len(shortestPaths) :
               ChannelEdges(shortestPaths[k]) = startingPath

\* C8: a stitched candidate is filtered out for length exactly when it
\* traverses more than HopLimit channels.
C8_LengthFilter ==
    /\ \A p \in tooLong : Len(ChannelEdges(p)) > HopLimit
    /\ \A k \in 1..Len(candidatePaths) :
           Len(ChannelEdges(candidatePaths[k].hops)) <= HopLimit
    /\ \A k \in 1..Len(shortestPaths) :
           Len(ChannelEdges(shortestPaths[k])) <= HopLimit

(***************************************************************************)
(* Properties of the route newRoute returns.                                *)
(***************************************************************************)
RouteReturned == pc = "done" /\ err = "nil" /\ route # <<>>

Hops == route[1].Hops

\* C9: between consecutive hops the amount to forward drops by the fee the
\* later hop's own edge, pathEdges at the later hop's index, charges on
\* the later hop's amount.
C9_AmountsByOwnEdge ==
    RouteReturned =>
        \A i \in 1..(Len(Hops) - 1) :
            Hops[i].AmtToForward - Hops[i + 1].AmtToForward =
                computeFee(Hops[i + 1].AmtToForward, pathEdges[i + 1])

\* C9 (amended): the last hop forwards the payment amount; between
\* consecutive hops the amount to forward drops by the fee of the edge that
\* leaves the later hop, pathEdges one past the later hop's index, and by
\* nothing when the later hop is the last.  A two hop route whose second
\* edge charges 1000 + 1000 ppm forwards 100000 at both hops and sends
\* 101100 in total, 1100 of it fees.
C9_AmountsByNextEdge ==
    RouteReturned =>
        /\ Hops[Len(Hops)].AmtToForward = amt
        /\ \A i \in 1..(Len(Hops) - 1) :
               Hops[i].AmtToForward - Hops[i + 1].AmtToForward =
                   IF i + 1 = Len(Hops) THEN 0
                   ELSE computeFee(Hops[i + 1].AmtToForward, pathEdges[i + 2])
        /\ (/\ Len(pathEdges) = 2
            /\ amt = 100000
            /\ pathEdges[2].FeeBaseMSat = 1000
            /\ pathEdges[2].FeeProportionalMillionths = 1000) =>
               /\ Hops[1].AmtToForward = 100000
               /\ Hops[2].AmtToForward = 100000
               /\ route[1].TotalAmount = 101100
               /\ route[1].TotalFees = 1100

\* A three hop route was returned whose last two edges charge different,
\* non-zero fees.
C9_Witness ==
    /\ RouteReturned
    /\ Len(pathEdges) = 3
    /\ computeFee(amt, pathEdges[3]) > 0
    /\ computeFee(amt, pathEdges[2]) # computeFee(amt, pathEdges[3])
    /\ Hops[1].AmtToForward > Hops[2].AmtToForward

\* C10: between consecutive hops the outgoing time lock drops by the time
\* lock delta of the later hop's own edge, pathEdges at the later hop's
\* index.
C10_TimeLocksByOwnEdge ==
    RouteReturned =>
        \A i \in 1..(Len(Hops) - 1) :
            Hops[i].OutgoingTimeLock - Hops[i + 1].OutgoingTimeLock =
                pathEdges[i + 1].TimeLockDelta

\* C10 (amended): the last hop's outgoing time lock is the current height
\* plus the final delta; between consecutive hops the outgoing time lock
\* drops by the time lock delta of the edge that leaves the later hop,
\* pathEdges one past the later hop's index, and by nothing when the later
\* hop is the last.
C10_TimeLocksByNextEdge ==
    RouteReturned =>
        /\ Hops[Len(Hops)].OutgoingTimeLock = currentHeight + finalCLTVDelta
        /\ \A i \in 1..(Len(Hops) - 1) :
               Hops[i].OutgoingTimeLock - Hops[i + 1].OutgoingTimeLock =
                   IF i + 1 = Len(Hops) THEN 0
                   ELSE pathEdges[i + 2].TimeLockDelta

\* A three hop route was returned whose last two edges have different
\* time lock deltas.
C10_Witness ==
    /\ RouteReturned
    /\ Len(pathEdges) = 3
    /\ pathEdges[2].TimeLockDelta # pathEdges[3].TimeLockDelta
    /\ Hops[1].OutgoingTimeLock > Hops[2].OutgoingTimeLock

\* The amount that has to arrive at the tail of the edge at index i for amt
\* to reach the end of edges: every edge after it adds its fee.
RECURSIVE AmountSent(_, _)
AmountSent(edges, i) ==
    IF i >= Len(edges) THEN amt
    ELSE LET forwarded == AmountSent(edges, i + 1)
         IN forwarded + computeFee(forwarded, edges[i + 1])

NewRouteDone == pc = "done" /\ numPaths = 0

\* C11: for a non-empty edge list newRoute fails with the fee limit error,
\* and returns no route, exactly when the fees of the edges after the first
\* exceed feeLimit; otherwise it returns a route whose TotalFees are
\* TotalAmount less the last hop's amount, at most feeLimit, and whose last
\* hop forwards the payment amount.
C11_FeeLimit ==
    (NewRouteDone /\ Len(pathEdges) >= 1) =>
        IF AmountSent(pathEdges, 1) - amt > feeLimit
        THEN err = "ErrFeeLimitExceeded" /\ route = <<>>
        ELSE /\ err = "nil"
             /\ route # <<>>
             /\ route[1].TotalAmount = AmountSent(pathEdges, 1)
             /\ route[1].TotalFees =
                    route[1].TotalAmount - Hops[Len(Hops)].AmtToForward
             /\ route[1].TotalFees <= feeLimit
             /\ Hops[Len(Hops)].AmtToForward = amt

\* newRoute refused a route over the fee limit.
C11_Witness ==
    /\ NewRouteDone
    /\ Len(pathEdges) >= 2
    /\ err = "ErrFeeLimitExceeded"
    /\ AmountSent(pathEdges, 1) - amt > feeLimit

\* C12: newRoute returns no route, and an error, for an edge list of more
\* than HopLimit edges: a route it returns has at most HopLimit hops.
C12_HopLimit ==
    NewRouteDone =>
        /\ Len(pathEdges) > HopLimit => (err # "nil" /\ route = <<>>)
        /\ route # <<>> => Len(Hops) <= HopLimit

\* C13: the total time lock of a returned route is the first hop's outgoing
\* time lock plus the time lock delta of the first edge.
C13_TotalTimeLockByFirstEdge ==
    RouteReturned =>
        route[1].TotalTimeLock =
            Hops[1].OutgoingTimeLock + pathEdges[1].TimeLockDelta

\* C13 (amended): the total time lock of a returned route is the first
\* hop's outgoing time lock plus the time lock delta of the second edge; for
\* a route of one hop it is the hop's outgoing time lock, the current height
\* plus the final delta.
C13_TotalTimeLockBySecondEdge ==
    RouteReturned =>
        route[1].TotalTimeLock =
            IF Len(pathEdges) = 1
            THEN currentHeight + finalCLTVDelta
            ELSE Hops[1].OutgoingTimeLock + pathEdges[2].TimeLockDelta

\* A route of several hops was returned whose first two edges have
\* different time lock deltas.
C13_Witness ==
    /\ RouteReturned
    /\ Len(pathEdges) >= 2
    /\ pathEdges[1].TimeLockDelta # pathEdges[2].TimeLockDelta
    /\ route[1].TotalTimeLock > Hops[1].OutgoingTimeLock

(***************************************************************************)
(* Properties of what findKPaths and findPath return.                       *)
(***************************************************************************)
\* findKPaths has returned; its seed was seed.path.
KPathsReturned == pc = "done" /\ seed.err = "nil" /\ seed.path # <<>>

ChannelIDs(p) == [k \in 1..Len(p) |-> p[k].ChannelID]

\* C14: the paths one call of findKPaths returns are pairwise distinct as
\* sequences of channel ids.
C14_PathsDistinct ==
    KPathsReturned =>
        \A i, j \in 1..Len(kPaths.paths) :
            i # j => ChannelIDs(kPaths.paths[i]) # ChannelIDs(kPaths.paths[j])

\* C15: the list findKPaths returns is in non-decreasing order of hop
\* count.
C15_OrderedByHopCount ==
    KPathsReturned =>
        \A i \in 1..(Len(kPaths.paths) - 1) :
            Len(kPaths.paths[i]) <= Len(kPaths.paths[i + 1])

\* C16: with numPaths = 1 findKPaths returns exactly one path, the seed
\* (apart from the self edge in front), for every seed.
C16_OnlyTheSeed ==
    (KPathsReturned /\ numPaths = 1) =>
        /\ Len(kPaths.paths) = 1
        /\ ChannelEdges(kPaths.paths[1]) = seed.path

\* C16 (amended): with numPaths = 1 and a seed of at most HopLimit edges
\* findKPaths returns exactly one path, the seed, with the self edge in
\* front unless the source differs from a given origin.  With a seed of
\* more than HopLimit edges it returns no path or one path, which is not
\* the seed and has at most HopLimit edges.
C16_SeedUnlessTooLong ==
    (KPathsReturned /\ numPaths = 1) =>
        IF Len(seed.path) <= HopLimit
        THEN /\ Len(kPaths.paths) = 1
             /\ kPaths.paths[1] =
                    IF gOriginVertex # <<>> /\ gOriginVertex[1] # source
                    THEN seed.path
                    ELSE <<SelfEdge(source)>> \o seed.path
        ELSE /\ Len(kPaths.paths) <= 1
             /\ \A k \in 1..Len(kPaths.paths) :
                    /\ ChannelEdges(kPaths.paths[k]) # seed.path
                    /\ Len(ChannelEdges(kPaths.paths[k])) <= HopLimit

\* findKPaths was given a seed of more than HopLimit edges and numPaths = 1,
\* and returned one path.
C16_Witness ==
    /\ KPathsReturned
    /\ numPaths = 1
    /\ Len(seed.path) > HopLimit
    /\ Len(kPaths.paths) = 1

\* findPath has returned on a graph whose only channel joins source and
\* target; SinglePolicy is that channel's policy toward the target.
SingleEdgeReturned ==
    /\ pc \in {"findKPaths", "done"}
    /\ Len(graph.chans) = 1
    /\ bandwidthHints = {}

SinglePolicy == graph.chans[1].p1

SingleFound == pathFound = [path |-> <<SinglePolicy>>, err |-> "nil"]

SingleNoPath == pathFound = [path |-> <<>>, err |-> "ErrNoPathFound"]

\* C17: on a graph of one channel findPath returns the channel's policy
\* toward the target exactly when the amount is at least MinHTLC, the
\* capacity is at least the amount, the policy is not disabled and its time
\* lock delta is positive; otherwise it fails with ErrNoPathFound.
C17_SingleEdgeFourChecks ==
    SingleEdgeReturned =>
        IF /\ amt >= SinglePolicy.MinHTLC
           /\ NewMSatFromSatoshis(graph.chans[1].Capacity) >= amt
           /\ ~SinglePolicy.Disabled
           /\ SinglePolicy.TimeLockDelta > 0
        THEN SingleFound
        ELSE SingleNoPath

\* C17 (amended): when the source is the origin (no origin is given, or
\* the origin given is the source) findPath returns the policy exactly when
\* the amount is at least MinHTLC, the capacity is at least the amount and
\* the time lock delta is positive, whether the policy is disabled or not;
\* when the origin is another vertex the policy must also be enabled and
\* its fee for the amount within the fee limit.  Otherwise findPath fails
\* with ErrNoPathFound.
C17_SingleEdgeOriginExempt ==
    SingleEdgeReturned =>
        IF /\ amt >= SinglePolicy.MinHTLC
           /\ NewMSatFromSatoshis(graph.chans[1].Capacity) >= amt
           /\ SinglePolicy.TimeLockDelta > 0
           /\ (gOriginVertex # <<>> /\ gOriginVertex[1] # source) =>
                  /\ ~SinglePolicy.Disabled
                  /\ computeFee(amt, SinglePolicy) <= feeLimit
        THEN SingleFound
        ELSE SingleNoPath

\* findPath returned a disabled policy that leaves the origin.
C17_Witness ==
    /\ SingleEdgeReturned
    /\ SinglePolicy.Disabled
    /\ gOriginVertex = <<>>
    /\ SingleFound

\* findPath has returned a path and a nil error.
FindPathReturned ==
    /\ pc \in {"findKPaths", "done"}
    /\ seed.err = "nil"
    /\ seed.path # <<>>
    /\ pathFound.err = "nil"

\* p is a chain of edges of the graph that leads from vertex v to vertex w.
Connected(p, v, w) ==
    /\ Len(p) >= 1
    /\ EdgeTail(graph, p[1]) = v
    /\ \A i \in 1..(Len(p) - 1) : p[i].Node = EdgeTail(graph, p[i + 1])
    /\ p[Len(p)].Node = w

\* C18: a path findPath returns with a nil error is a connected chain of
\* between 1 and HopLimit edges from the source to the target, also when it
\* comes from the retry through findKPaths, whatever the origin.
C18_ConnectedChain ==
    FindPathReturned =>
        /\ Connected(pathFound.path, source, target)
        /\ Len(pathFound.path) <= HopLimit

\* C19: when outgoingChannelID is set, the first edge of a path findPath
\* returns with a nil error has that channel id, also when the path comes
\* from the retry through findKPaths.
C19_OutgoingChannel ==
    (FindPathReturned /\ outgoingChannelID # <<>>) =>
        /\ Len(pathFound.path) >= 1
        /\ pathFound.path[1].ChannelID = outgoingChannelID[1]

\* The edges of the graph that leave vertex v.
OutEdges(v) ==
    {InEdge(graph.chans[k], OtherNode(graph.chans[k], v)[1]) :
        k \in {n \in 1..Len(graph.chans) :
                  v \in {graph.chans[n].NodeKey1, graph.chans[n].NodeKey2}}}

\* The loop-free paths from v to the target that avoid the vertexes visited.
RECURSIVE PathsFrom(_, _)
PathsFrom(v, visited) ==
    IF v = target THEN {<<>>}
    ELSE UNION {{<<e>> \o p : p \in PathsFrom(e.Node, visited \cup {v})} :
                   e \in {d \in OutEdges(v) : d.Node \notin visited \cup {v}}}

\* The amounts and the weight a path induces from its edge i on, propagated
\* backward from the target, and whether each of these edges passes the
\* checks of the relaxation for these amounts.
RECURSIVE PathEval(_, _)
PathEval(p, i) ==
    IF i > Len(p) THEN [ok |-> TRUE, dist |-> 0, amountToReceive |-> amt]
    ELSE LET rest == PathEval(p, i + 1)
             edge == p[i]
             fromVertex == EdgeTail(graph, edge)
             isSourceChan == fromVertex = OriginVertex(SearchCall)
             amountToSend == rest.amountToReceive
             fee == IF isSourceChan THEN 0 ELSE computeFee(amountToSend, edge)
             timeLockDelta == IF isSourceChan THEN 0 ELSE edge.TimeLockDelta
             amountToReceive == amountToSend + fee
         IN [ok |-> /\ rest.ok
                    /\ isSourceChan \/ ~edge.Disabled
                    /\ \/ ~isSourceChan
                       \/ outgoingChannelID = <<>>
                       \/ outgoingChannelID[1] = edge.ChannelID
                    /\ Bandwidth(bandwidthHints,
                           FetchChannelEdgesByID(graph, edge.ChannelID)[1])
                          >= amountToSend
                    /\ amountToSend >= edge.MinHTLC
                    /\ amountToReceive - amt <= feeLimit
                    /\ edge.TimeLockDelta # 0,
             dist |-> rest.dist
                      + edgeWeight(amountToReceive, fee, timeLockDelta),
             amountToReceive |-> amountToReceive]

\* C20: a path findPath returns without the retry for the hop limit has the
\* least total weight among the admissible loop-free paths from the source
\* to the target.
C20_MinimalWeight ==
    (FindPathReturned /\ Len(seed.path) <= HopLimit) =>
        \A p \in PathsFrom(source, {}) :
            PathEval(p, 1).ok =>
                PathEval(pathFound.path, 1).dist <= PathEval(p, 1).dist

\* C21: findPath fails with ErrNoPathFound only if no loop-free path from
\* the source to the target passes the checks of the relaxation for the
\* amounts the path itself induces.
C21_Complete ==
    seed.err = "ErrNoPathFound" =>
        \A p \in PathsFrom(source, {}) : ~PathEval(p, 1).ok

\* The search of findPath has run.
SearchDone == pc \in {"hopLimit", "findKPaths", "done"}

\* C22: a zero time lock delta rejects an edge only when the edge does not
\* leave the origin.  On a graph of one channel whose policy leaves the
\* origin with a zero delta and passes the other checks, the search finds
\* that policy as the first edge; and no edge with a zero delta that leaves
\* another vertex is ever part of a path the search finds.
C22_ZeroDeltaOnlyInterior ==
    SearchDone =>
        /\ (/\ Len(graph.chans) = 1
            /\ bandwidthHints = {}
            /\ outgoingChannelID = <<>>
            /\ OriginVertex(SearchCall) = source
            /\ SinglePolicy.TimeLockDelta = 0
            /\ amt >= SinglePolicy.MinHTLC
            /\ NewMSatFromSatoshis(graph.chans[1].Capacity) >= amt)
           => seed = [path |-> <<SinglePolicy>>, err |-> "nil"]
        /\ \A i \in 1..Len(seed.path) :
               seed.path[i].TimeLockDelta = 0 =>
                   EdgeTail(graph, seed.path[i]) = OriginVertex(SearchCall)

\* The stepwise walk returns what findKPaths returns.
KPathsAgree ==
    (pc = "done" /\ seed.err = "nil") =>
        kPaths = findKPaths(SearchCall, seed.path, numPaths)

\* A call of findPath with stopAtMaxHopsExceeded set ends at the hop limit
\* check: it hands back the over-long path and never enters findKPaths.
SpurNeverRetries ==
    SearchDone =>
        findPathHopLimit([SearchCall EXCEPT !.r.stopAtMaxHopsExceeded = TRUE],
                         seed)
            = findPathOverLong(seed)

\* How far the call has come: the statements in order, and within the
\* outer loop of findKPaths the iteration.
PcRank ==
    CASE pc = "search" -> 0
      [] pc = "hopLimit" -> 1
      [] pc = "findKPaths" -> 2
      [] pc = "kLoop" -> 3
      [] pc = "filter" -> 4
      [] OTHER -> 5

Rank == PcRank * (MaxIter + 2) + kLoop.k

\* The call has returned or its next statement can run: the outer loop is
\* not held at the iteration bound of the model.
CanStep ==
    (pc = "kLoop" /\ kLoop.ks.validPathsNum < numPaths) => kLoop.k <= MaxIter

\* C23: every call of findPath and findKPaths returns.  Every step brings
\* the call nearer to its return and leaves it returned or able to step
\* again, so the outer loop of findKPaths ends, by an empty candidate heap
\* or by numPaths valid paths, also when no path is short enough to count
\* as valid; and a findPath call with stopAtMaxHopsExceeded set never calls
\* findKPaths.
C23_Terminates ==
    []SpurNeverRetries /\ [][Rank' > Rank /\ CanStep']_vars

\* The loop ended on an empty heap after at least one iteration that
\* popped a candidate, with no valid path counted.
C23_Witness ==
    /\ pc = "done"
    /\ kLoop.k >= 2
    /\ kLoop.ks.validPathsNum = 0
    /\ Len(kLoop.ks.candidatePaths) = 0

\* findPaths has its pegs from prepareHopPegs.
PegsPrepared == pc \notin {"prepareHopPegs", "search"} /\ Len(pegs) >= 1

\* C24: in the pegs prepareHopPegs returns, every entry with a channel is
\* directly preceded by an entry whose node is the other endpoint of that
\* channel, also where the second loop dropped a repeated entry.
C24_ChannelPegAdjacent ==
    PegsPrepared =>
        \A i \in 1..Len(pegs) :
            pegs[i].ChannelID # 0 =>
                /\ i > 1
                /\ FetchChannelEdgesByID(graph, pegs[i].ChannelID) # <<>>
                /\ <<pegs[i - 1].NodeID>> =
                       OtherNode(FetchChannelEdgesByID(graph,
                                     pegs[i].ChannelID)[1],
                                 pegs[i].NodeID)

\* A peg with a channel was returned, and the entry added for its other
\* endpoint was dropped as a repetition.
C24_Witness ==
    /\ PegsPrepared
    /\ \E i \in 1..Len(pegs) : pegs[i].ChannelID # 0
    /\ Len(pegs) = Len(additionalPegs) + 2

====
